---- MODULE Spec2Model ----
(***************************************************************************)
(* A model of package flargs (environment.go): the Environment aggregate,  *)
(* its three constructors (NewCLIEnvironment, NewTestingEnvironment,       *)
(* NewNullEnvironment), the drain accessors GetOutput / GetError /         *)
(* GetInput, and the NullDevice adapter.                                   *)
(*                                                                         *)
(* Strings are sequences of tokens.  The token "=" is the byte '='; every  *)
(* other token stands for a run of bytes that holds no '='.                *)
(* Byte slices are sequences of Bytes.  Go's nil is the string "nil".      *)
(***************************************************************************)
EXTENDS Integers, Sequences, FiniteSets, TLC

VARIABLES
    environ,    \* os.Environ(): the process environment, a sequence of entries
    args,       \* os.Args
    envs,       \* the Environments constructed so far, by caller-side name
    ctor,       \* history: which constructor built each Environment, and its argument
    fault,      \* the run-time panic that ended the process, if any
    heap,       \* the stream objects the Environments' stream fields point to
    disk,       \* the operating system's file tree: path -> content
    call,       \* the drain call in progress (single-threaded caller)
    ret,        \* what the last completed drain returned
    wres,       \* what the last stream Write returned
    fres,       \* what the last Filesystem call returned
    written,    \* history: bytes written through each stream field since its last drain
    delivered,  \* history: bytes the stream's Read calls handed to the drain in progress
    fsWrote     \* history: the paths each Environment wrote through its Filesystem

vars == <<environ, args, envs, ctor, fault, heap, disk, call, ret, wres, fres,
          written, delivered, fsWrote>>

----------------------------------------------------------------------------
(* Bounds of the model *)

MaxEntries == 2      \* entries in the process environment
MaxEntryLen == 3     \* tokens in one environment entry
MaxWrite == 2        \* bytes in one Write call
MaxBuffered == 2     \* bytes held by all streams together

EnvIds == {"e1", "e2"}                 \* the caller's Environment variables
Roles == {"InputStream", "OutputStream", "ErrorStream"}
Bytes == {"x", "y"}
Paths == {"p", "q"}
Contents == {<<"x">>, <<"y">>}         \* file contents

Nil == "nil"
EOF == "EOF"                           \* io.EOF
ErrRead == "read error"                \* any non-EOF error of a stream's Read
ErrNotExist == "file does not exist"   \* fs.ErrNotExist

RESERVED_KEY == <<"FLARGS_EXE_ENVIRONMENT">>
Cli == <<"cli">>
Testing == <<"testing">>

----------------------------------------------------------------------------
(* Go strings and slices *)

Min(a, b) == IF a < b THEN a ELSE b

\* s[lo:hi] with Go's zero-based, half-open indices
Slice(s, lo, hi) == SubSeq(s, lo + 1, hi)

\* Mutant of IndexByte: the index of the last c in s (strings.LastIndexByte).
LastIndexByte(s, c) ==
    IF \E i \in 1..Len(s) : s[i] = c
    THEN (CHOOSE i \in 1..Len(s) : s[i] = c /\ \A j \in (i + 1)..Len(s) : s[j] # c) - 1
    ELSE -1

\* strings.IndexByte(s, c): the index of the first c in s, or -1
IndexByte(s, c) ==
    IF \E i \in 1..Len(s) : s[i] = c
    THEN (CHOOSE i \in 1..Len(s) : s[i] = c /\ \A j \in 1..(i - 1) : s[j] # c) - 1
    ELSE -1

\* m[k] = v on a Go map
MapPut(m, k, v) == [x \in (DOMAIN m) \cup {k} |-> IF x = k THEN v ELSE m[x]]

EmptyMap == [x \in {} |-> <<>>]

\* Mutant of EnvAsMapFrom: an entry without '=' is skipped, not sliced.
RECURSIVE EnvAsMapFromSkipping(_, _, _)
EnvAsMapFromSkipping(entries, k, m) ==
    IF k > Len(entries)
    THEN [panicked |-> FALSE, entry |-> -1, m |-> m]
    ELSE LET s == entries[k]
             i == IndexByte(s, "=")
         IN  IF i < 0
             THEN EnvAsMapFromSkipping(entries, k + 1, m)
             ELSE EnvAsMapFromSkipping(entries, k + 1,
                                       MapPut(m, Slice(s, 0, i), Slice(s, i + 1, Len(s))))

\* The closure envAsMap of NewCLIEnvironment, from entry k (one-based) on.
\* s[0:i] with i = -1 is a run-time panic (slice bounds out of range); the
\* result then names the entry (Go index) the loop was at.
RECURSIVE EnvAsMapFrom(_, _, _)
EnvAsMapFrom(entries, k, m) ==
    IF k > Len(entries)
    THEN [panicked |-> FALSE, entry |-> -1, m |-> m]
    ELSE LET s == entries[k]
             i == IndexByte(s, "=")
         IN  IF i < 0
             THEN [panicked |-> TRUE, entry |-> k - 1, m |-> EmptyMap]
             ELSE EnvAsMapFrom(entries, k + 1,
                               MapPut(m, Slice(s, 0, i), Slice(s, i + 1, Len(s))))

envAsMap(entries) == EnvAsMapFrom(entries, 1, EmptyMap)

----------------------------------------------------------------------------
(* The Environment aggregate and its constructors *)

\* A stream field holds a reference: the dynamic type and the object's address.
BufferRef(e, role) == [type |-> "bytes.Buffer", addr |-> <<e, role>>]
NullStreamRef == [type |-> "NullDevice", addr |-> <<"NullDevice", "io.Discard">>]
OsFileRef(name) == [type |-> "os.File", addr |-> <<"os", name>>]
ReadWriterRef(e, role) == [type |-> "io.ReadWriter", addr |-> <<e, role>>]

\* rfs.NewWritable(): a handle on the operating system's file tree.  The
\* handle holds no storage of its own; every handle works on `disk`.
NewWritable == [type |-> "rfs.WritableFs"]
NullFs == [type |-> "NullDevice"]
NilFs == [type |-> Nil]

\* rand.NewSource(seed): a source, never nil
NewSource(seed) == <<"rand.Source", seed>>
NilSource == <<Nil, 0>>
\* What a caller may pass to NewTestingEnvironment: nil, or a source of its own
Sources == {NilSource, <<"rand.Source", 0>>}

\* Mutant of TestingEnvironment: one buffer serves as OutputStream and as
\* ErrorStream.
TestingEnvironmentSharedBuffer(e, randomnessProvider) ==
    [InputStream  |-> BufferRef(e, "InputStream"),
     OutputStream |-> BufferRef(e, "OutputStream"),
     ErrorStream  |-> BufferRef(e, "OutputStream"),
     Randomness   |-> randomnessProvider,
     Filesystem   |-> NewWritable,
     Variables    |-> MapPut(EmptyMap, RESERVED_KEY, Testing),
     Arguments    |-> <<>>]

\* Mutant of TestingEnvironment: a nil randomnessProvider is replaced by a
\* source of the constructor's own.
TestingEnvironmentDefaultSource(e, randomnessProvider) ==
    [InputStream  |-> BufferRef(e, "InputStream"),
     OutputStream |-> BufferRef(e, "OutputStream"),
     ErrorStream  |-> BufferRef(e, "ErrorStream"),
     Randomness   |-> IF randomnessProvider = NilSource
                      THEN NewSource(1) ELSE randomnessProvider,
     Filesystem   |-> NewWritable,
     Variables    |-> MapPut(EmptyMap, RESERVED_KEY, Testing),
     Arguments    |-> <<>>]

\* The composite literal of NewTestingEnvironment, built at call site e.
\* Each new(bytes.Buffer) is a fresh object.
TestingEnvironment(e, randomnessProvider) ==
    [InputStream  |-> BufferRef(e, "InputStream"),
     OutputStream |-> BufferRef(e, "OutputStream"),
     ErrorStream  |-> BufferRef(e, "ErrorStream"),
     Randomness   |-> randomnessProvider,
     Filesystem   |-> NewWritable,
     Variables    |-> MapPut(EmptyMap, RESERVED_KEY, Testing),
     Arguments    |-> <<>>]

\* Mutant of CLIVariables: an inherited value of the reserved key is kept.
CLIVariablesKeepInherited(m) ==
    IF RESERVED_KEY \in DOMAIN m THEN m ELSE MapPut(m, RESERVED_KEY, Cli)

\* vars := envAsMap(os.Environ()); vars["FLARGS_EXE_ENVIRONMENT"] = "cli"
CLIVariables(m) == MapPut(m, RESERVED_KEY, Cli)

\* The composite literal of NewCLIEnvironment, given the imported variables.
CLIEnvironment(m, argv, seed) ==
    [InputStream  |-> OsFileRef("Stdin"),
     OutputStream |-> OsFileRef("Stdout"),
     ErrorStream  |-> OsFileRef("Stderr"),
     Randomness   |-> seed,
     Filesystem   |-> NewWritable,
     Variables    |-> CLIVariables(m),
     Arguments    |-> argv]

\* The composite literal of NewNullEnvironment.  Randomness is left at its
\* zero value.
NullEnvironment ==
    [InputStream  |-> NullStreamRef,
     OutputStream |-> NullStreamRef,
     ErrorStream  |-> NullStreamRef,
     Randomness   |-> NilSource,
     Filesystem   |-> NullFs,
     Variables    |-> EmptyMap,
     Arguments    |-> <<>>]

\* An Environment a caller assembles itself from streams of its own: any
\* io.ReadWriter fits the exported stream fields.  Unset fields are zero.
LiteralEnvironment(e) ==
    [InputStream  |-> ReadWriterRef(e, "InputStream"),
     OutputStream |-> ReadWriterRef(e, "OutputStream"),
     ErrorStream  |-> ReadWriterRef(e, "ErrorStream"),
     Randomness   |-> NilSource,
     Filesystem   |-> NilFs,
     Variables    |-> EmptyMap,
     Arguments    |-> <<>>]

\* The objects an Environment's stream fields point to, newly made and empty.
StreamAddrs(env) == {env[r].addr : r \in Roles}
TypeAt(env, a) == (CHOOSE r \in Roles : env[r].addr = a)
Allocate(h, env) ==
    [a \in (DOMAIN h) \cup StreamAddrs(env) |->
        IF a \in StreamAddrs(env)
        THEN [type |-> env[TypeAt(env, a)].type, buf |-> <<>>]
        ELSE h[a]]

NoFault == [panicked |-> FALSE, entry |-> -1]
Idle == [op |-> "idle", e |-> "-", role |-> "-", pc |-> "-",
         b |-> <<>>, n |-> 0, err |-> Nil]
Running == ~fault.panicked /\ call.op = "idle"

Put(f, k, v) == [x \in (DOMAIN f) \cup {k} |-> IF x = k THEN v ELSE f[x]]

Built(e, env, by, given) ==
    /\ envs' = Put(envs, e, env)
    /\ ctor' = Put(ctor, e, [by |-> by, randomnessProvider |-> given])
    /\ written' = Put(written, e, [r \in Roles |-> <<>>])
    /\ fsWrote' = Put(fsWrote, e, {})


\* clock: what time.Now().UnixNano() may read during the call
NewCLIEnvironment(e, clock) ==
    /\ Running
    /\ e \notin DOMAIN envs
    /\ LET r == envAsMap(environ)
       IN  IF r.panicked
           THEN /\ fault' = [panicked |-> TRUE, entry |-> r.entry]
                /\ UNCHANGED <<envs, ctor, written, fsWrote>>
           ELSE /\ \E now \in clock :
                       Built(e, CLIEnvironment(r.m, args, NewSource(now)),
                             "NewCLIEnvironment", NilSource)
                /\ UNCHANGED fault
    /\ UNCHANGED <<environ, args, heap, disk, call, ret, wres, fres, delivered>>

NewTestingEnvironment(e, randomnessProvider) ==
    /\ Running
    /\ e \notin DOMAIN envs
    /\ LET env == TestingEnvironment(e, randomnessProvider)
       IN  /\ Built(e, env, "NewTestingEnvironment", randomnessProvider)
           /\ heap' = Allocate(heap, env)
    /\ UNCHANGED <<environ, args, fault, disk, call, ret, wres, fres, delivered>>

NewNullEnvironment(e) ==
    /\ Running
    /\ e \notin DOMAIN envs
    /\ Built(e, NullEnvironment, "NewNullEnvironment", NilSource)
    /\ UNCHANGED <<environ, args, fault, heap, disk, call, ret, wres, fres, delivered>>

NewLiteralEnvironment(e) ==
    /\ Running
    /\ e \notin DOMAIN envs
    /\ LET env == LiteralEnvironment(e)
       IN  /\ Built(e, env, "Environment{}", NilSource)
           /\ heap' = Allocate(heap, env)
    /\ UNCHANGED <<environ, args, fault, disk, call, ret, wres, fres, delivered>>

----------------------------------------------------------------------------
(* Streams: bytes.Buffer, NullDevice, and a caller's own io.ReadWriter *)

MinRead == 512       \* bytes.MinRead: the room Buffer.ReadFrom offers each Read
ReadAllCap == 512    \* io.ReadAll's first buffer: make([]byte, 0, 512)

\* Mutant of BufferWrite: p goes in front of the unread bytes.
BufferWritePrepend(buf, p) == [buf |-> p \o buf, n |-> Len(p), err |-> Nil]

\* (*bytes.Buffer).Write(p): append p; n = len(p), err = nil
BufferWrite(buf, p) == [buf |-> buf \o p, n |-> Len(p), err |-> Nil]

\* io.Discard.Write(p), promoted through NullDevice's embedded io.Writer
DiscardWrite(buf, p) == [buf |-> buf, n |-> Len(p), err |-> Nil]

\* (*bytes.Buffer).Read(p) with len(p) = room > 0: an empty buffer reports
\* io.EOF; otherwise the unread bytes are copied out and consumed.
BufferRead(buf, room) ==
    IF buf = <<>>
    THEN {[data |-> <<>>, err |-> EOF, buf |-> <<>>]}
    ELSE LET n == Min(room, Len(buf))
         IN  {[data |-> Slice(buf, 0, n), err |-> Nil, buf |-> Slice(buf, n, Len(buf))]}

\* NullDevice.Read: return 0, nil
NullDeviceRead(buf, room) == {[data |-> <<>>, err |-> Nil, buf |-> buf]}

\* Read of an io.ReadWriter the package knows nothing about: it hands over
\* some of the bytes it holds (at most room) and reports nil, io.EOF or
\* another error, as the io.Reader contract allows.
ReadWriterRead(buf, room) ==
    {[data |-> Slice(buf, 0, n), err |-> er, buf |-> Slice(buf, n, Len(buf))] :
        n \in 0..Min(room, Len(buf)), er \in {Nil, EOF, ErrRead}}

StreamWrite(type, buf, p) ==
    IF type = "NullDevice" THEN DiscardWrite(buf, p) ELSE BufferWrite(buf, p)

StreamRead(type, buf, room) ==
    CASE type = "bytes.Buffer" -> BufferRead(buf, room)
      [] type = "NullDevice"   -> NullDeviceRead(buf, room)
      [] OTHER                 -> ReadWriterRead(buf, room)

Modelled(ref) == ref.type \in {"bytes.Buffer", "NullDevice", "io.ReadWriter"}
Stateful(ref) == ref.type \in {"bytes.Buffer", "io.ReadWriter"}
BufOf(ref) == IF Stateful(ref) THEN heap[ref.addr].buf ELSE <<>>

\* The bytes written and not yet drained, over all stream fields.
Pending ==
    LET keys == {<<e, r>> : e \in DOMAIN written, r \in Roles}
        RECURSIVE Sum(_)
        Sum(S) == IF S = {} THEN 0
                  ELSE LET k == CHOOSE y \in S : TRUE
                       IN  Len(written[k[1]][k[2]]) + Sum(S \ {k})
    IN  Sum(keys)

\* No call of the kind has returned since the caller last looked.
NoRet == [e |-> "-", role |-> "-", bytes |-> <<>>, sinceLast |-> <<>>,
          delivered |-> <<>>, err |-> Nil]
NoWres == [e |-> "-", role |-> "-", p |-> <<>>, n |-> 0, err |-> Nil]

\* The bytes the stream objects hold.
Buffered ==
    LET RECURSIVE Sum(_)
        Sum(S) == IF S = {} THEN 0
                  ELSE LET a == CHOOSE y \in S : TRUE
                       IN  Len(heap[a].buf) + Sum(S \ {a})
    IN  Sum(DOMAIN heap)

ByteSeqs(n) == UNION {[1..k -> Bytes] : k \in 1..n}

\* e.<role>.Write(p), by the caller
Write(e, role, p) ==
    /\ Running
    /\ e \in DOMAIN envs
    /\ Modelled(envs[e][role])
    /\ Pending + Len(p) <= MaxBuffered
    /\ Buffered + Len(p) <= MaxBuffered
    /\ LET ref == envs[e][role]
           w == StreamWrite(ref.type, BufOf(ref), p)
       IN  /\ heap' = IF Stateful(ref)
                      THEN [heap EXCEPT ![ref.addr].buf = w.buf]
                      ELSE heap
           /\ wres' = [e |-> e, role |-> role, p |-> p, n |-> w.n, err |-> w.err]
    /\ written' = [written EXCEPT ![e][role] = @ \o p]
    /\ ret' = NoRet
    /\ UNCHANGED <<environ, args, envs, ctor, fault, disk, call, fres,
                   delivered, fsWrote>>

\* The stream each accessor drains.
Accessor(role) ==
    CASE role = "OutputStream" -> "GetOutput"
      [] role = "ErrorStream"  -> "GetError"
      [] role = "InputStream"  -> "GetInput"

\* The room the drain loop offers the next Read.  io.ReadAll reads into
\* b[len(b):cap(b)] and grows b once it is full; Buffer.ReadFrom grows by
\* MinRead before every Read.
Room(op, b) ==
    IF op = "GetOutput"
    THEN (IF Len(b) < ReadAllCap THEN ReadAllCap - Len(b) ELSE 1)
    ELSE MinRead

\* io.ReadAll after a Read: any error, io.EOF included, ends the loop and b
\* is returned; GetOutput drops the error.
ReadAllDone(err) == err # Nil

\* Buffer.ReadFrom after a Read: io.EOF ends the loop, and so does any other
\* error; GetError / GetInput never look at the error and return buf.Bytes().
ReadFromDone(err) == err = EOF \/ err # Nil

LoopDone(op, err) == IF op = "GetOutput" THEN ReadAllDone(err) ELSE ReadFromDone(err)

\* Mutant of DrainResult: a failed Read makes the accessor return nil.
DrainResultNilOnError(b, err) == IF err \in {Nil, EOF} THEN b ELSE <<>>

\* What the accessor hands back when its loop ends: the bytes accumulated.
DrainResult(b, err) == b

\* e.GetOutput() / e.GetError() / e.GetInput(): entry
DrainCall(e, role) ==
    /\ Running
    /\ e \in DOMAIN envs
    /\ Modelled(envs[e][role])
    /\ call' = [op |-> Accessor(role), e |-> e, role |-> role, pc |-> "read",
                b |-> <<>>, n |-> 0, err |-> Nil]
    /\ delivered' = <<>>
    /\ ret' = NoRet
    /\ wres' = NoWres
    /\ UNCHANGED <<environ, args, envs, ctor, fault, heap, disk, fres,
                   written, fsWrote>>

\* n, err := r.Read(...); b = b[:len(b)+n]
DrainRead ==
    /\ ~fault.panicked
    /\ call.pc = "read"
    /\ LET ref == envs[call.e][call.role]
       IN  \E r \in StreamRead(ref.type, BufOf(ref), Room(call.op, call.b)) :
              /\ heap' = IF Stateful(ref)
                         THEN [heap EXCEPT ![ref.addr].buf = r.buf]
                         ELSE heap
              /\ call' = [call EXCEPT !.pc = "check", !.b = @ \o r.data,
                                      !.n = Len(r.data), !.err = r.err]
              /\ delivered' = delivered \o r.data
    /\ UNCHANGED <<environ, args, envs, ctor, fault, disk, ret, wres, fres,
                   written, fsWrote>>

\* the test of err after the Read: return, or go round again
DrainCheck ==
    /\ ~fault.panicked
    /\ call.pc = "check"
    /\ IF LoopDone(call.op, call.err)
       THEN /\ ret' = [e |-> call.e, role |-> call.role,
                       bytes |-> DrainResult(call.b, call.err),
                       sinceLast |-> written[call.e][call.role],
                       delivered |-> delivered,
                       err |-> call.err]
            /\ call' = Idle
            /\ written' = [written EXCEPT ![call.e][call.role] = <<>>]
            /\ delivered' = <<>>
       ELSE /\ call' = [call EXCEPT !.pc = "read"]
            /\ UNCHANGED <<ret, written, delivered>>
    /\ UNCHANGED <<environ, args, envs, ctor, fault, heap, disk, wres, fres,
                   fsWrote>>


----------------------------------------------------------------------------
(* The Filesystem capability: rfs.WritableFs over the operating system's   *)
(* files, and NullDevice                                                   *)

Dir == "."
FsOps == {"Open", "ReadDir", "ReadFile", "Stat", "OpenFile", "Remove", "WriteFile"}
Flags == {"O_RDONLY", "O_CREATE"}

\* A call's first result: nil, or a value (a file's bytes, a handle's or a
\* FileInfo's name, a directory's entries).
Absent == [present |-> FALSE, data |-> <<>>]
Value(d) == [present |-> TRUE, data |-> d]

\* The names in the directory, sorted as os.ReadDir sorts them.
Listing(d) ==
    IF Paths \subseteq DOMAIN d THEN <<"p", "q">>
    ELSE IF "p" \in DOMAIN d THEN <<"p">>
    ELSE IF "q" \in DOMAIN d THEN <<"q">>
    ELSE <<>>

Remove(d, path) == [x \in (DOMAIN d) \ {path} |-> d[x]]

\* One call on the handle rfs.NewWritable() returns: the operating system's
\* file tree is read or changed.
OsFsCall(d, op, path, flag, data) ==
    CASE op = "WriteFile" ->
            IF path = Dir THEN [disk |-> d, val |-> Absent, err |-> "is a directory"]
            ELSE [disk |-> Put(d, path, data), val |-> Absent, err |-> Nil]
      [] op = "Remove" ->
            IF path \in DOMAIN d
            THEN [disk |-> Remove(d, path), val |-> Absent, err |-> Nil]
            ELSE [disk |-> d, val |-> Absent,
                  err |-> IF path = Dir THEN "invalid argument" ELSE ErrNotExist]
      [] op = "OpenFile" ->
            IF path = Dir \/ path \in DOMAIN d
            THEN [disk |-> d, val |-> Value(<<path>>), err |-> Nil]
            ELSE IF flag = "O_CREATE"
            THEN [disk |-> Put(d, path, <<>>), val |-> Value(<<path>>), err |-> Nil]
            ELSE [disk |-> d, val |-> Absent, err |-> ErrNotExist]
      [] op = "ReadFile" ->
            IF path \in DOMAIN d
            THEN [disk |-> d, val |-> Value(d[path]), err |-> Nil]
            ELSE [disk |-> d, val |-> Absent,
                  err |-> IF path = Dir THEN "is a directory" ELSE ErrNotExist]
      [] op = "ReadDir" ->
            IF path = Dir
            THEN [disk |-> d, val |-> Value(Listing(d)), err |-> Nil]
            ELSE [disk |-> d, val |-> Absent,
                  err |-> IF path \in DOMAIN d THEN "not a directory" ELSE ErrNotExist]
      [] OTHER ->     \* Open, Stat
            IF path = Dir \/ path \in DOMAIN d
            THEN [disk |-> d, val |-> Value(<<path>>), err |-> Nil]
            ELSE [disk |-> d, val |-> Absent, err |-> ErrNotExist]

\* Mutant of NullDeviceCall: the reading calls report fs.ErrNotExist.
NullDeviceCallNotExist(d, op, path, flag, data) ==
    [disk |-> d, val |-> Absent,
     err |-> IF op \in {"WriteFile", "Remove"} THEN Nil ELSE ErrNotExist]

\* NullDevice's Open, ReadDir, ReadFile, Stat, OpenFile: return nil, nil;
\* Remove, WriteFile: return nil.
NullDeviceCall(d, op, path, flag, data) == [disk |-> d, val |-> Absent, err |-> Nil]

FsDispatch(fs, d, op, path, flag, data) ==
    IF fs.type = "NullDevice"
    THEN NullDeviceCall(d, op, path, flag, data)
    ELSE OsFsCall(d, op, path, flag, data)

\* Whether the call asks the Filesystem to store a file at path.
Stores(op, flag) == op = "WriteFile" \/ (op = "OpenFile" /\ flag = "O_CREATE")

\* e.Filesystem.<op>(path, ...), by the caller
FsCall(e, op, path, flag, data) ==
    /\ Running
    /\ e \in DOMAIN envs
    /\ envs[e].Filesystem.type # Nil
    /\ LET r == FsDispatch(envs[e].Filesystem, disk, op, path, flag, data)
       IN  /\ disk' = r.disk
           /\ fres' = [e |-> e, op |-> op, path |-> path, val |-> r.val, err |-> r.err]
    /\ fsWrote' = IF Stores(op, flag) /\ path # Dir
                  THEN [fsWrote EXCEPT ![e] = @ \cup {path}]
                  ELSE fsWrote
    /\ UNCHANGED <<environ, args, envs, ctor, fault, heap, call, ret, wres,
                   written, delivered>>

NoFres == [e |-> "-", op |-> "-", path |-> "-", val |-> Absent, err |-> Nil]

----------------------------------------------------------------------------
(* Specifications *)

Tokens == {"=", "a"}
Strs(n) == UNION {[1..k -> Tokens] : k \in 0..n}
\* Environment entries: any string of tokens, and those that start with the
\* reserved key.
Entries == Strs(MaxEntryLen) \cup {RESERVED_KEY \o s : s \in Strs(MaxEntryLen - 1)}
Environs == UNION {[1..k -> Entries] : k \in 0..MaxEntries}
Clock == {1, 2}
ArgVecs == {<<"prog">>, <<"prog", "arg">>}

EmptyFn == [x \in {} |-> {}]

InitOf(E, A) ==
    /\ environ \in E
    /\ args \in A
    /\ envs = EmptyFn
    /\ ctor = EmptyFn
    /\ fault = NoFault
    /\ heap = EmptyFn
    /\ disk = EmptyFn
    /\ call = Idle
    /\ ret = NoRet
    /\ wres = NoWres
    /\ fres = NoFres
    /\ written = EmptyFn
    /\ delivered = <<>>
    /\ fsWrote = EmptyFn

\* Construction, over every process environment
InitEnv == InitOf(Environs, ArgVecs)
NextEnv ==
    \/ \E now \in Clock : NewCLIEnvironment("e1", {now})
    \/ \E src \in Sources : NewTestingEnvironment("e1", src)
    \/ NewNullEnvironment("e1")
SpecEnv == InitEnv /\ [][NextEnv]_vars

\* A well-formed process environment for the runs that are not about it
PlainEnviron == << <<"a", "=", "a">> >>

\* Streams
InitStream == InitOf({PlainEnviron}, {<<"prog">>})
NextStream ==
    \/ \E e \in EnvIds : NewTestingEnvironment(e, NilSource)
    \/ \E e \in EnvIds : NewNullEnvironment(e)
    \/ \E e \in EnvIds, role \in Roles, p \in ByteSeqs(MaxWrite) : Write(e, role, p)
    \/ \E e \in EnvIds, role \in Roles : DrainCall(e, role)
    \/ DrainRead
    \/ DrainCheck
SpecStream == InitStream /\ [][NextStream]_vars

\* The drain loop runs on once entered: the caller is inside the call.
FairStream == SpecStream /\ WF_vars(DrainRead) /\ WF_vars(DrainCheck)

\* Drains of streams whose Read may fail
InitDrain == InitOf({PlainEnviron}, {<<"prog">>})
NextDrain ==
    \/ NewLiteralEnvironment("e1")
    \/ \E role \in Roles, p \in ByteSeqs(MaxWrite) : Write("e1", role, p)
    \/ \E role \in Roles : DrainCall("e1", role)
    \/ DrainRead
    \/ DrainCheck
SpecDrain == InitDrain /\ [][NextDrain]_vars

\* Filesystems.  Only OpenFile takes flags and only WriteFile takes data.
FlagsOf(op) == IF op = "OpenFile" THEN Flags ELSE {"O_RDONLY"}
DataOf(op) == IF op = "WriteFile" THEN Contents ELSE {<<>>}
InitFs == InitOf({PlainEnviron}, {<<"prog">>})
NextFs ==
    \/ \E e \in EnvIds : NewCLIEnvironment(e, {1})
    \/ \E e \in EnvIds : NewTestingEnvironment(e, NilSource)
    \/ \E e \in EnvIds : NewNullEnvironment(e)
    \/ \E e \in EnvIds, op \in FsOps, path \in Paths \cup {Dir} :
          \E flag \in FlagsOf(op), data \in DataOf(op) : FsCall(e, op, path, flag, data)
SpecFs == InitFs /\ [][NextFs]_vars

----------------------------------------------------------------------------
(* Properties *)

BuiltBy(by) == {e \in DOMAIN envs : ctor[e].by = by}
TestingEnvs == BuiltBy("NewTestingEnvironment")
CLIEnvs == BuiltBy("NewCLIEnvironment")
NullEnvs == BuiltBy("NewNullEnvironment")

\* C1: every drain of a stream of a testing Environment returns exactly the
\* bytes written to that stream since its previous drain (or since
\* construction), in write order: write b then drain gives b, and a drain
\* right after a drain gives the empty sequence.
C1_DrainReturnsWritesSinceLastDrain ==
    ret.e \in TestingEnvs => ret.bytes = ret.sinceLast

\* C1 witness: a drain of a testing stream has returned two bytes written in
\* that order.
C1_Witness ==
    /\ ret.e \in TestingEnvs
    /\ ret.bytes = <<"x", "y">>
    /\ ret.sinceLast = <<"x", "y">>

\* What a drain of stream field r of Environment env would return, the
\* stream objects being h: the accessor's loop run to its end.
RECURSIVE RunDrain(_, _, _, _)
RunDrain(op, type, buf, b) ==
    LET r == CHOOSE x \in StreamRead(type, buf, Room(op, b)) : TRUE
    IN  IF LoopDone(op, r.err)
        THEN DrainResult(b \o r.data, r.err)
        ELSE RunDrain(op, type, r.buf, b \o r.data)

NextDrainOf(h, env, r) == RunDrain(Accessor(r), env[r].type, h[env[r].addr].buf, <<>>)

\* The step writes to stream field r of e (the bytes written through the
\* field grow), or is part of a drain of it.
StepOn(e, r) ==
    \/ (e \in DOMAIN written /\ written'[e][r] # written[e][r])
    \/ (call.e = e /\ call.role = r)
    \/ (call'.e = e /\ call'.role = r)

\* C7: the streams of testing Environments are independent and start empty:
\* a write to or a drain of one stream leaves unchanged what the next drain
\* of every other stream, of the same or of another testing Environment,
\* returns; and a stream just constructed drains to the empty sequence.
C7_StreamsIndependent ==
    [][ /\ \A e \in EnvIds, r \in Roles :
              StepOn(e, r) =>
                  \A e2 \in TestingEnvs, r2 \in Roles :
                      <<e2, r2>> # <<e, r>> =>
                          NextDrainOf(heap', envs'[e2], r2) = NextDrainOf(heap, envs[e2], r2)
        /\ \A e \in EnvIds :
              (e \notin DOMAIN envs /\ e \in TestingEnvs') =>
                  \A r \in Roles : NextDrainOf(heap', envs'[e], r) = <<>>
      ]_vars

\* C7 witness: with two testing Environments built, a drain of one stream
\* has returned its byte while another stream of the same Environment still
\* holds a byte of its own.
C7_Witness ==
    /\ TestingEnvs = EnvIds
    /\ ret.e = "e1" /\ ret.role = "OutputStream" /\ ret.bytes = <<"x">>
    /\ NextDrainOf(heap, envs["e1"], "ErrorStream") = <<"y">>
    /\ NextDrainOf(heap, envs["e2"], "OutputStream") = <<>>

\* C3: on a null Environment a Write of a non-empty byte sequence reports all
\* bytes written and no error, and a drain of the stream then completes and
\* returns the empty sequence.
C3_NullDrainCompletesEmpty ==
    /\ [](wres.e \in NullEnvs => (wres.n = Len(wres.p) /\ wres.err = Nil))
    /\ \A e \in EnvIds, r \in Roles :
          (e \in NullEnvs /\ call.op # "idle" /\ call.e = e /\ call.role = r)
              ~> (call.op = "idle" /\ ret.e = e /\ ret.role = r /\ ret.bytes = <<>>)

\* C9: a drain never surfaces a read failure: whatever the stream's Read
\* calls handed over before (and with) the failing Read is what the accessor
\* returns, nothing more and nothing less; the same for all three accessors.
C9_DrainKeepsDeliveredBytes ==
    ret.e \in DOMAIN envs => ret.bytes = ret.delivered

\* C9 witness: GetError has returned the one byte its stream delivered before
\* a Read failed, the stream still holding another.
C9_Witness ==
    /\ ret.e \in DOMAIN envs
    /\ ret.role = "ErrorStream"
    /\ ret.err = ErrRead
    /\ ret.bytes = <<"x">>
    /\ heap[envs[ret.e].ErrorStream.addr].buf = <<"y">>

\* The claims' own reading of an environment entry: the text before and the
\* text after its first '='.
HasEq(s) == \E i \in 1..Len(s) : s[i] = "="
FirstEq(s) == CHOOSE i \in 1..Len(s) : s[i] = "=" /\ \A j \in 1..(i - 1) : s[j] # "="
KeyOf(s) == SubSeq(s, 1, FirstEq(s) - 1)
ValueOf(s) == SubSeq(s, FirstEq(s) + 1, Len(s))
Malformed == {i \in 1..Len(environ) : ~HasEq(environ[i])}

\* C4: every Environment NewCLIEnvironment returns has
\* Variables["FLARGS_EXE_ENVIRONMENT"] = "cli", whatever the process
\* environment held under that key; every Environment NewTestingEnvironment
\* returns has "testing" there.
C4_ReservedKeyNamesTheKind ==
    /\ \A e \in CLIEnvs :
          /\ RESERVED_KEY \in DOMAIN envs[e].Variables
          /\ envs[e].Variables[RESERVED_KEY] = Cli
    /\ \A e \in TestingEnvs :
          /\ RESERVED_KEY \in DOMAIN envs[e].Variables
          /\ envs[e].Variables[RESERVED_KEY] = Testing

\* C4 witness: NewCLIEnvironment has returned although the process
\* environment sets the reserved key to another value.
C4_Witness ==
    /\ CLIEnvs # {}
    /\ \E i \in 1..Len(environ) : environ[i] = RESERVED_KEY \o <<"=", "a">>

\* C5: NewCLIEnvironment splits each entry at its first '=' only: an entry
\* whose key is not the reserved key and is not repeated by a later entry
\* maps that key to everything after the first '=' (further '=' included,
\* possibly empty); and every key of Variables but the reserved one is the
\* key of some entry.
C5_SplitAtFirstEquals ==
    \A e \in CLIEnvs :
        /\ \A i \in 1..Len(environ) :
              (/\ HasEq(environ[i])
               /\ KeyOf(environ[i]) # RESERVED_KEY
               /\ \A j \in (i + 1)..Len(environ) :
                     ~(HasEq(environ[j]) /\ KeyOf(environ[j]) = KeyOf(environ[i])))
              => (/\ KeyOf(environ[i]) \in DOMAIN envs[e].Variables
                  /\ envs[e].Variables[KeyOf(environ[i])] = ValueOf(environ[i]))
        /\ \A k \in DOMAIN envs[e].Variables :
              k # RESERVED_KEY =>
                  \E i \in 1..Len(environ) : HasEq(environ[i]) /\ KeyOf(environ[i]) = k

\* C5 witness: NewCLIEnvironment has returned for a process environment with
\* an entry whose value holds a further '=' and an entry with an empty value.
C5_Witness ==
    /\ CLIEnvs # {}
    /\ environ = << <<"a", "=", "=">>, <<"a", "a", "=">> >>

\* C6: an entry without '=' makes NewCLIEnvironment panic at that entry and
\* return nothing, however many well-formed entries come before or after it;
\* with every entry well-formed it does not panic.
C6_MalformedEntryPanics ==
    /\ Malformed # {} => CLIEnvs = {}
    /\ fault.panicked =>
          /\ Malformed # {}
          /\ fault.entry + 1 \in Malformed
          /\ \A i \in Malformed : fault.entry + 1 <= i
          /\ CLIEnvs = {}

\* C6 witness: NewCLIEnvironment has panicked at the second entry, the first
\* being well-formed.
C6_Witness ==
    /\ fault.panicked
    /\ fault.entry = 1
    /\ HasEq(environ[1])

\* C10: NewTestingEnvironment(nil) does not panic and leaves Randomness nil;
\* given a source, Randomness is that source; either way every other field
\* is non-nil and Arguments is empty.
C10_TestingRandomnessIsTheArgument ==
    \A e \in TestingEnvs :
        /\ ~fault.panicked
        /\ envs[e].Randomness = ctor[e].randomnessProvider
        /\ \A r \in Roles : envs[e][r].type # Nil
        /\ envs[e].Filesystem.type # Nil
        /\ DOMAIN envs[e].Variables # {}
        /\ envs[e].Arguments = <<>>

\* C10 witness: NewTestingEnvironment(nil) has returned an Environment whose
\* Randomness is nil.
C10_Witness ==
    \E e \in TestingEnvs :
        /\ ctor[e].randomnessProvider = NilSource
        /\ envs[e].Randomness = NilSource

\* C8: the null Environment's Filesystem is inert: WriteFile and Remove
\* report success, and Open, ReadFile, Stat, ReadDir and OpenFile return nil
\* and no error on any path, one just written included; the operating
\* system's files are not touched.
C8_NullFilesystemInert ==
    [][ fres'.e \in NullEnvs /\ fres' # fres =>
            (fres'.val = Absent /\ fres'.err = Nil /\ disk' = disk) ]_vars

\* C8 witness: ReadFile on a null Environment has returned for a path that
\* was written through the same Filesystem before.
C8_Witness ==
    /\ fres.e \in NullEnvs
    /\ fres.op = "ReadFile"
    /\ fres.path \in fsWrote[fres.e]

\* C2: two testing Environments never share Filesystem storage: a file written
\* through one at path p is absent when p is read, opened or stat-ed through
\* the other.
C2_TestingFilesystemsIsolated ==
    (/\ fres.e \in TestingEnvs
     /\ fres.op \in {"ReadFile", "Open", "Stat"}
     /\ fres.path \notin fsWrote[fres.e]
     /\ \E e \in TestingEnvs \ {fres.e} : fres.path \in fsWrote[e])
    => (~fres.val.present)

====
